---- MODULE Spec2Model ----
(***************************************************************************)
(* State-machine model of server.py: the MCP demo counter server.          *)
(*                                                                         *)
(* The program is one module-level integer `counter`, four tool handlers   *)
(* (get-counter, increment-counter, decrement-counter, reset-counter), one *)
(* resource handler (the bundled HTML page) and main(), which selects the  *)
(* transport.  Strings read from the environment and bytes read from disk  *)
(* are sequences, so that int(), str() and read_text() are computed.       *)
(***************************************************************************)
EXTENDS Integers, Sequences, FiniteSets, Bags, TLC

VARIABLES
    pc,         \* "start" before main() has run, "serving" inside mcp.run(), "failed" after a fatal exit
    argv,       \* command line: [stdio |-> BOOLEAN, port |-> <<>> or <<digits>>]
    environ,    \* os.environ: [PORT |-> <<>> (unset) or <<digits>>]
    settings,   \* mcp.settings: host, port, streamable_http_path
    transport,  \* the transport handed to mcp.run(), "" before
    stdout,     \* lines printed by main()
    dist,       \* dist/mcp-app.html: <<>> (absent) or <<bytes>>
    counter,    \* the module global
    inflight,   \* bag of requests the transport has accepted and not yet dispatched
    lastCall,   \* the request handled last: [op, args]
    response,   \* the response to lastCall
    served,     \* number of requests handled, modulo 2
    repeated,   \* history: the request handled before lastCall was for the same operation
    applied,    \* history: sum of the signed deltas applied since start or the last reset
    wasReset,   \* history: reset-counter has run
    reads,      \* history: get-counter calls since the last write, and what they returned
    expected,   \* history: counter on arrival of the requests now in flight plus their signed deltas
    quiesced,   \* history: counter when no request was in flight last
    uiFailed    \* history: a resource request has failed

vars == <<pc, argv, environ, settings, transport, stdout, dist, counter, inflight,
          lastCall, response, served, repeated, applied, wasReset, reads, expected, quiesced,
          uiFailed>>

(***************************************************************************)
(* Bounds of the model.                                                    *)
(***************************************************************************)
\* Handlers are explored while the counter stays within -MaxAbs .. MaxAbs.
MaxAbs == 6

\* Requests in flight at once in the concurrent specification.
MaxInFlight == 2

(***************************************************************************)
(* Module constants (server.py lines 14-16).                               *)
(***************************************************************************)
RESOURCE_URI == "ui://counter/mcp-app.html"

RESOURCE_MIME_TYPE == "text/html;profile=mcp-app"

(***************************************************************************)
(* str() and int() on decimal numerals.                                    *)
(***************************************************************************)
Digit(d) ==
    CASE d = 0 -> "0" [] d = 1 -> "1" [] d = 2 -> "2" [] d = 3 -> "3" [] d = 4 -> "4"
      [] d = 5 -> "5" [] d = 6 -> "6" [] d = 7 -> "7" [] d = 8 -> "8" [] d = 9 -> "9"

RECURSIVE NatStr(_)
NatStr(n) ==
    IF n < 10 THEN Digit(n) ELSE NatStr(n \div 10) \o Digit(n % 10)

\* f"{n}" for an int n
str(n) ==
    IF n < 0 THEN "-" \o NatStr(-n) ELSE NatStr(n)

DigitValue(ch) ==
    CASE ch = "0" -> 0 [] ch = "1" -> 1 [] ch = "2" -> 2 [] ch = "3" -> 3 [] ch = "4" -> 4
      [] ch = "5" -> 5 [] ch = "6" -> 6 [] ch = "7" -> 7 [] ch = "8" -> 8 [] ch = "9" -> 9

RECURSIVE int(_)
\* int(s) for a string of decimal digits, given as the sequence of its characters
int(s) ==
    IF Len(s) = 1 THEN DigitValue(s[1])
    ELSE 10 * int(SubSeq(s, 1, Len(s) - 1)) + DigitValue(s[Len(s)])

(***************************************************************************)
(* Path.read_text(encoding="utf-8"): the file is opened in text mode, so   *)
(* its bytes are decoded as UTF-8 and then passed through universal        *)
(* newlines, which turns "\r\n" and a lone "\r" into "\n".  File contents  *)
(* are UTF-8 text with code points below U+0800 (one- and two-byte         *)
(* sequences); text is the sequence of its code points.                    *)
(***************************************************************************)
RECURSIVE utf8_decode(_)
utf8_decode(bs) ==
    IF bs = <<>> THEN <<>>
    ELSE IF bs[1] < 128 THEN <<bs[1]>> \o utf8_decode(Tail(bs))
    ELSE <<(bs[1] - 192) * 64 + (bs[2] - 128)>> \o utf8_decode(Tail(Tail(bs)))

RECURSIVE universal_newlines(_)
universal_newlines(t) ==
    IF t = <<>> THEN <<>>
    ELSE IF t[1] = 13 /\ Len(t) > 1 /\ t[2] = 10 THEN <<10>> \o universal_newlines(Tail(Tail(t)))
    ELSE IF t[1] = 13 THEN <<10>> \o universal_newlines(Tail(t))
    ELSE <<t[1]>> \o universal_newlines(Tail(t))

read_text(bs) ==
    universal_newlines(utf8_decode(bs))

(***************************************************************************)
(* Responses: what the dispatcher sends back for a handler's return value  *)
(* or for the exception it raised.                                         *)
(***************************************************************************)
NoResponse ==
    [kind |-> "none", text |-> "", content |-> <<>>, mime |-> ""]

\* a tool's returned string
TextContent(s) ==
    [kind |-> "text", text |-> s, content |-> <<>>, mime |-> ""]

\* a resource's returned text, served with the registered mime type
ResourceContents(t) ==
    [kind |-> "resource", text |-> RESOURCE_URI, content |-> t, mime |-> RESOURCE_MIME_TYPE]

\* an exception raised by the handler, named by its class
Raised(exc) ==
    [kind |-> "error", text |-> exc, content |-> <<>>, mime |-> ""]

\* SystemExit and KeyboardInterrupt are not Exceptions: they end the process.
Fatal(resp) ==
    resp.kind = "error" /\ resp.text \in {"SystemExit", "KeyboardInterrupt"}

(***************************************************************************)
(* The handlers.  Each takes the value c of the global `counter` it reads  *)
(* and returns the value it leaves in the global and its response.         *)
(***************************************************************************)
\* Mutant: reading the counter also counts the read.
get_counter_counting(c) ==
    [counter |-> c + 1, response |-> TextContent("Current counter value: " \o str(c + 1))]

get_counter(c) ==
    [counter |-> c, response |-> TextContent("Current counter value: " \o str(c))]

\* Mutant: `counter = amount` in place of `counter += amount`.
increment_counter_assign(c, amount) ==
    [counter |-> amount, response |-> TextContent("Counter incremented to: " \o str(amount))]

\* Mutant: the message is formatted before the update.
increment_counter_old_message(c, amount) ==
    [counter |-> c + amount, response |-> TextContent("Counter incremented to: " \o str(c))]

increment_counter(c, amount) ==
    LET n == c + amount
    IN  [counter |-> n, response |-> TextContent("Counter incremented to: " \o str(n))]

\* Mutant: the counter is clamped at zero.
decrement_counter_clamped(c, amount) ==
    LET n == IF c - amount < 0 THEN 0 ELSE c - amount
    IN  [counter |-> n, response |-> TextContent("Counter decremented to: " \o str(n))]

decrement_counter(c, amount) ==
    LET n == c - amount
    IN  [counter |-> n, response |-> TextContent("Counter decremented to: " \o str(n))]

\* Mutant: only a positive counter is reset.
reset_counter_if_positive(c) ==
    [counter |-> IF c > 0 THEN 0 ELSE c, response |-> TextContent("Counter reset to 0")]

reset_counter(c) ==
    [counter |-> 0, response |-> TextContent("Counter reset to 0")]

\* Mutant: a missing file ends the process (sys.exit) instead of raising an Exception.
get_ui_resource_exit(c, file) ==
    IF file = <<>>
    THEN [counter |-> c, response |-> Raised("SystemExit")]
    ELSE [counter |-> c, response |-> ResourceContents(read_text(file[1]))]

get_ui_resource(c, file) ==
    IF file = <<>>
    THEN [counter |-> c, response |-> Raised("FileNotFoundError")]
    ELSE [counter |-> c, response |-> ResourceContents(read_text(file[1]))]

\* Mutant: an omitted amount counts as 0.
amount_or_default_zero(args) ==
    IF args = <<>> THEN 0 ELSE args[1]

\* the `amount` parameter: args is <<>> when the caller omits it, <<a>> otherwise
amount_or_default(args) ==
    IF args = <<>> THEN 1 ELSE args[1]

\* the handlers as registered: tools by name, the resource by its URI
call(req, c, file) ==
    CASE req.op = "get-counter"       -> get_counter(c)
      [] req.op = "increment-counter" -> increment_counter(c, amount_or_default(req.args))
      [] req.op = "decrement-counter" -> decrement_counter(c, amount_or_default(req.args))
      [] req.op = "reset-counter"     -> reset_counter(c)
      [] req.op = "resources/read"    -> get_ui_resource(c, file)

\* Mutant: a handler works on the value the counter had before the requests in
\* flight arrived, as when every handler loads the global before any stores it.
LoadCounterStale ==
    quiesced

\* the value of the global that a running handler reads
LoadCounter ==
    counter

(***************************************************************************)
(* main(): argument parsing and the choice of transport.                   *)
(***************************************************************************)
\* os.environ.get("PORT", "3001")
environ_get_PORT(env) ==
    IF env.PORT = <<>> THEN <<"3", "0", "0", "1">> ELSE env.PORT[1]

\* Mutant: the PORT environment variable is ignored.
port_default_fixed(env) ==
    int(<<"3", "0", "0", "1">>)

\* default=int(os.environ.get("PORT", "3001"))
port_default(env) ==
    int(environ_get_PORT(env))

parse_args(av, env) ==
    [stdio |-> av.stdio,
     port  |-> IF av.port = <<>> THEN port_default(env) ELSE int(av.port[1])]

\* settings as the framework leaves them when main() assigns nothing
UnsetSettings ==
    [host |-> "", port |-> 0, streamable_http_path |-> ""]

main(av, env) ==
    LET args == parse_args(av, env)
    IN  IF args.stdio
        THEN [transport |-> "stdio", settings |-> UnsetSettings, stdout |-> <<>>]
        ELSE [transport |-> "streamable-http",
              settings  |-> [host |-> "0.0.0.0", port |-> args.port,
                             streamable_http_path |-> "/mcp"],
              stdout    |-> <<"MCP Demo Server listening on http://localhost:"
                               \o str(args.port) \o "/mcp">>]

(***************************************************************************)
(* Inputs.                                                                 *)
(***************************************************************************)
ToolNames ==
    {"get-counter", "increment-counter", "decrement-counter", "reset-counter"}

WriteTools ==
    {"increment-counter", "decrement-counter", "reset-counter"}

\* amounts a caller passes: negative, zero, the default's value, and 2 and 5
Amounts ==
    {-2, 0, 1, 2, 5}

AmountArgs ==
    {<<>>} \cup {<<a>> : a \in Amounts}

\* amounts of the requests of the concurrent specification
ConcurrentArgs ==
    {<<>>, <<-2>>}

ArgvSet ==
    [stdio : BOOLEAN, port : {<<>>, <<(<<"4", "0", "0", "0">>)>>}]

EnvironSet ==
    [PORT : {<<>>, <<(<<"8", "0", "8", "0">>)>>}]

\* contents of dist/mcp-app.html: "<\n>", "<\r\n>" and "<e-acute>"
Files ==
    {<<60, 10, 62>>, <<60, 13, 10, 62>>, <<60, 195, 169, 62>>}

Request(op, args) ==
    [op |-> op, args |-> args]

(***************************************************************************)
(* History helpers.                                                        *)
(***************************************************************************)
\* the signed delta a request asks for
Delta(req) ==
    CASE req.op = "increment-counter" -> amount_or_default(req.args)
      [] req.op = "decrement-counter" -> 0 - amount_or_default(req.args)
      [] OTHER -> 0

RECURSIVE SumOver(_, _)
SumOver(S, bag) ==
    IF S = {} THEN 0
    ELSE LET r == CHOOSE x \in S : TRUE
         IN  CopiesIn(r, bag) * Delta(r) + SumOver(S \ {r}, bag)

\* the signed deltas of the requests in flight
PendingSum(bag) ==
    SumOver(BagToSet(bag), bag)

(***************************************************************************)
(* Actions.                                                                *)
(***************************************************************************)
Init ==
    /\ pc = "start"
    /\ argv \in ArgvSet
    /\ environ \in EnvironSet
    /\ settings = UnsetSettings
    /\ transport = ""
    /\ stdout = <<>>
    /\ dist \in {<<>>} \cup {<<f>> : f \in Files}
    /\ counter = 0
    /\ inflight = EmptyBag
    /\ lastCall = Request("", <<>>)
    /\ response = NoResponse
    /\ served = 0
    /\ repeated = FALSE
    /\ applied = 0
    /\ wasReset = FALSE
    /\ reads = [n |-> 0, text |-> ""]
    /\ expected = 0
    /\ quiesced = 0
    /\ uiFailed = FALSE

\* main() up to the point where mcp.run() starts serving
Main ==
    /\ pc = "start"
    /\ LET m == main(argv, environ)
       IN  /\ transport' = m.transport
           /\ settings' = m.settings
           /\ stdout' = m.stdout
    /\ pc' = "serving"
    /\ UNCHANGED <<argv, environ, dist, counter, inflight, lastCall, response, served,
                   repeated, applied, wasReset, reads, expected, quiesced, uiFailed>>

\* The dispatcher runs the handler of req to completion: handlers are plain
\* functions without a suspension point.  pending are the requests still in
\* flight afterwards, arrived the history value `expected` with req counted.
Handle(req, pending, arrived) ==
    /\ pc = "serving"
    /\ LET res == call(req, LoadCounter, dist)
       IN  /\ res.counter \in -MaxAbs .. MaxAbs
           /\ counter' = res.counter
           /\ response' = res.response
           /\ pc' = IF Fatal(res.response) THEN "failed" ELSE pc
           /\ quiesced' = IF pending = EmptyBag THEN res.counter ELSE quiesced
           /\ uiFailed' = (uiFailed \/ (req.op = "resources/read" /\ res.response.kind = "error"))
           /\ reads' = IF req.op = "get-counter"
                       THEN [n |-> IF reads.n < 2 THEN reads.n + 1 ELSE 2, text |-> res.response.text]
                       ELSE IF req.op \in WriteTools THEN [n |-> 0, text |-> ""]
                       ELSE reads
    /\ lastCall' = req
    /\ served' = 1 - served
    /\ repeated' = (lastCall.op = req.op)
    /\ inflight' = pending
    /\ applied' = IF req.op = "reset-counter" THEN 0 ELSE applied + Delta(req)
    /\ wasReset' = (wasReset \/ req.op = "reset-counter")
    /\ expected' = IF req.op = "reset-counter" THEN PendingSum(pending) ELSE arrived
    /\ UNCHANGED <<argv, environ, settings, transport, stdout, dist>>

\* A request of a client that waits for each response before its next request.
Serve(req) ==
    Handle(req, EmptyBag, expected + Delta(req))

GetCounter ==
    /\ inflight = EmptyBag
    /\ Serve(Request("get-counter", <<>>))

IncrementCounter ==
    /\ inflight = EmptyBag
    /\ \E args \in AmountArgs : Serve(Request("increment-counter", args))

DecrementCounter ==
    /\ inflight = EmptyBag
    /\ \E args \in AmountArgs : Serve(Request("decrement-counter", args))

ResetCounter ==
    /\ inflight = EmptyBag
    /\ Serve(Request("reset-counter", <<>>))

ReadResource ==
    /\ inflight = EmptyBag
    /\ Serve(Request("resources/read", <<>>))

\* The environment builds, rebuilds or removes dist/mcp-app.html.
WriteFile ==
    /\ \E f \in Files : dist' = <<f>>
    /\ dist' # dist
    /\ UNCHANGED <<pc, argv, environ, settings, transport, stdout, counter, inflight, lastCall,
                   response, served, repeated, applied, wasReset, reads, expected, quiesced, uiFailed>>

RemoveFile ==
    /\ dist # <<>>
    /\ dist' = <<>>
    /\ UNCHANGED <<pc, argv, environ, settings, transport, stdout, counter, inflight, lastCall,
                   response, served, repeated, applied, wasReset, reads, expected, quiesced, uiFailed>>

Next ==
    \/ Main
    \/ GetCounter
    \/ IncrementCounter
    \/ DecrementCounter
    \/ ResetCounter
    \/ ReadResource
    \/ WriteFile
    \/ RemoveFile

Spec ==
    Init /\ [][Next]_vars

(***************************************************************************)
(* Several requests in flight: the transport accepts requests while        *)
(* earlier ones wait, and the dispatcher runs them in any order.           *)
(***************************************************************************)
ConcurrentRequests ==
    {Request("get-counter", <<>>), Request("reset-counter", <<>>)}
      \cup {Request(op, args) : op \in {"increment-counter", "decrement-counter"},
                                args \in ConcurrentArgs}

InitConcurrent ==
    /\ Init
    /\ argv = [stdio |-> FALSE, port |-> <<>>]
    /\ environ = [PORT |-> <<>>]
    /\ dist = <<(<<60, 10, 62>>)>>

Receive ==
    /\ pc = "serving"
    /\ BagCardinality(inflight) < MaxInFlight
    /\ \E req \in ConcurrentRequests :
          /\ inflight' = inflight (+) SetToBag({req})
          /\ expected' = expected + Delta(req)
    /\ UNCHANGED <<pc, argv, environ, settings, transport, stdout, dist, counter, lastCall,
                   response, served, repeated, applied, wasReset, reads, quiesced, uiFailed>>

Dispatch ==
    /\ inflight # EmptyBag
    /\ \E req \in BagToSet(inflight) : Handle(req, inflight (-) SetToBag({req}), expected)

NextConcurrent ==
    \/ Main
    \/ Receive
    \/ Dispatch

SpecConcurrent ==
    InitConcurrent /\ [][NextConcurrent]_vars

(***************************************************************************)
(* Properties.                                                             *)
(***************************************************************************)
\* A step in which the handler of operation op ran.
Step(op) ==
    served' # served /\ lastCall'.op = op

\* C1: from a fresh process and as long as reset-counter has not run, the
\* counter equals the sum of the signed deltas of the increment-counter (+a)
\* and decrement-counter (-a) calls so far; nothing clamps it at zero.
C1_SumOfSignedDeltas ==
    ~wasReset => counter = applied

\* C1 witness: without any reset, a decrement by a positive amount has taken
\* the counter below zero.
C1_Witness ==
    /\ ~wasReset
    /\ lastCall.op = "decrement-counter"
    /\ lastCall.args # <<>>
    /\ lastCall.args[1] > 0
    /\ counter < 0

\* C2: reset-counter leaves the counter at 0 whatever it was, with the fixed
\* response; run right after another reset-counter it finds 0, leaves 0 and
\* answers the same.
C2_ResetIdempotent ==
    [][Step("reset-counter") =>
          /\ counter' = 0
          /\ response' = TextContent("Counter reset to 0")
          /\ (lastCall.op = "reset-counter" => counter = 0 /\ response' = response)]_vars

\* C2 witness: reset-counter has run twice in a row.
C2_Witness ==
    lastCall.op = "reset-counter" /\ repeated /\ counter = 0

\* C3: get-counter leaves the counter as it found it, and returns what the
\* earlier get-counter calls since the last increment, decrement or reset
\* returned.
C3_GetIsReadOnly ==
    [][Step("get-counter") =>
          /\ counter' = counter
          /\ (reads.n > 0 => response'.text = reads.text)]_vars

\* C3 witness: get-counter has run at least twice since the last write, on a
\* counter that is not 0.
C3_Witness ==
    lastCall.op = "get-counter" /\ reads.n = 2 /\ counter # 0

\* C4: in every state the counter equals the sum of the signed deltas applied
\* since process start or, once reset-counter has run, since the last reset.
C4_CounterIsSumSinceReset ==
    counter = applied

\* C4 witness: an increment or decrement after a reset has left a counter
\* other than 0.
C4_Witness ==
    /\ wasReset
    /\ lastCall.op \in {"increment-counter", "decrement-counter"}
    /\ counter # 0

\* C5: the response of the operation handled last carries the counter as that
\* operation left it, in the operation's own wording; from 0, increment(5),
\* decrement(2), get-counter and reset-counter answer with 5, 3, 3 and 0.
C5_ResponseReportsCounter ==
    /\ [](/\ lastCall.op = "increment-counter" =>
                response = TextContent("Counter incremented to: " \o str(counter))
          /\ lastCall.op = "decrement-counter" =>
                response = TextContent("Counter decremented to: " \o str(counter))
          /\ lastCall.op = "get-counter" =>
                response = TextContent("Current counter value: " \o str(counter))
          /\ lastCall.op = "reset-counter" =>
                response = TextContent("Counter reset to 0"))
    /\ [][/\ (counter = 0 /\ Step("increment-counter") /\ lastCall'.args = <<5>>) =>
                response'.text = "Counter incremented to: 5"
          /\ (counter = 5 /\ Step("decrement-counter") /\ lastCall'.args = <<2>>) =>
                response'.text = "Counter decremented to: 3"
          /\ (counter = 3 /\ Step("get-counter")) =>
                response'.text = "Current counter value: 3"
          /\ Step("reset-counter") =>
                response'.text = "Counter reset to 0"]_vars

\* C5 witness: decrement(2) has answered "Counter decremented to: 3".
C5_Witness ==
    /\ lastCall = Request("decrement-counter", <<2>>)
    /\ counter = 3
    /\ response.text = "Counter decremented to: 3"

\* C6: with the amount omitted, increment-counter leaves c + 1 and
\* decrement-counter leaves c - 1, and answer as for amount = 1.
C6_OmittedAmountIsOne ==
    [][/\ (Step("increment-counter") /\ lastCall'.args = <<>>) =>
             /\ counter' = counter + 1
             /\ response'.text = "Counter incremented to: " \o str(counter + 1)
       /\ (Step("decrement-counter") /\ lastCall'.args = <<>>) =>
             /\ counter' = counter - 1
             /\ response'.text = "Counter decremented to: " \o str(counter - 1)]_vars

\* C6 witness: from 0, increment-counter() has answered "Counter incremented to: 1".
C6_Witness ==
    /\ lastCall = Request("increment-counter", <<>>)
    /\ ~wasReset
    /\ counter = 1
    /\ response.text = "Counter incremented to: 1"

\* the UTF-8 bytes of a text with code points below U+0800
RECURSIVE utf8_encode(_)
utf8_encode(t) ==
    IF t = <<>> THEN <<>>
    ELSE IF t[1] < 128 THEN <<t[1]>> \o utf8_encode(Tail(t))
    ELSE <<192 + (t[1] \div 64), 128 + (t[1] % 64)>> \o utf8_encode(Tail(t))

\* C7: a resource request leaves the counter alone; with the file present it
\* returns the file's exact content under the declared content type, with the
\* file absent it fails with the not-found error.
C7_ExactContentOrNotFound ==
    [][Step("resources/read") =>
          /\ counter' = counter
          /\ IF dist = <<>>
             THEN response' = Raised("FileNotFoundError")
             ELSE /\ response'.kind = "resource"
                  /\ response'.mime = RESOURCE_MIME_TYPE
                  /\ utf8_encode(response'.content) = dist[1]]_vars

\* C8: a resource request that fails leaves the server serving and every
\* piece of its state as it was; afterwards every operation is still enabled
\* and a resource request made once the file exists succeeds.
C8_FailureIsPerRequest ==
    /\ [](uiFailed =>
             /\ pc = "serving"
             /\ ENABLED GetCounter
             /\ ENABLED IncrementCounter
             /\ ENABLED DecrementCounter
             /\ ENABLED ResetCounter
             /\ ENABLED ReadResource)
    /\ [][(Step("resources/read") /\ response'.kind = "error") =>
             /\ response' = Raised("FileNotFoundError")
             /\ UNCHANGED <<pc, counter, settings, transport, stdout, dist, inflight>>]_vars
    /\ [][(uiFailed /\ Step("resources/read") /\ dist # <<>>) =>
             response'.kind = "resource"]_vars
    /\ [][/\ (uiFailed /\ Step("get-counter")) => counter' = counter
          /\ (uiFailed /\ Step("increment-counter")) =>
                counter' = counter + amount_or_default(lastCall'.args)
          /\ (uiFailed /\ Step("decrement-counter")) =>
                counter' = counter - amount_or_default(lastCall'.args)
          /\ (uiFailed /\ Step("reset-counter")) => counter' = 0]_vars

\* C8 witness: after a failed resource request and later writes, a resource
\* request has succeeded.
C8_Witness ==
    /\ uiFailed
    /\ lastCall.op = "resources/read"
    /\ response.kind = "resource"
    /\ counter # 0

\* C9: once main() has run, exactly one transport is selected: stdio with the
\* flag, leaving settings and output untouched; otherwise streamable-http on
\* 0.0.0.0 at path /mcp, on the --port value if given, else on PORT from the
\* environment if set, else on 3001.
C9_TransportSelected ==
    pc # "start" =>
       /\ argv.stdio =>
             /\ transport = "stdio"
             /\ settings = UnsetSettings
             /\ stdout = <<>>
       /\ ~argv.stdio =>
             /\ transport = "streamable-http"
             /\ settings.host = "0.0.0.0"
             /\ settings.streamable_http_path = "/mcp"
             /\ settings.port =
                   CASE argv.port = <<(<<"4", "0", "0", "0">>)>> -> 4000
                     [] argv.port = <<>> /\ environ.PORT = <<(<<"8", "0", "8", "0">>)>> -> 8080
                     [] OTHER -> 3001

\* C9 witness: without --stdio and --port, the server listens on the port
\* named by PORT.
C9_Witness ==
    /\ pc = "serving"
    /\ ~argv.stdio
    /\ argv.port = <<>>
    /\ environ.PORT # <<>>
    /\ settings.port = 8080
    /\ stdout = <<"MCP Demo Server listening on http://localhost:8080/mcp">>

====
